---- MODULE Spec2Model ----
(***************************************************************************)
(* Model of the recording / facial-analysis pipeline of the session page:  *)
(*   - SessionPage (src/unnamed/part_004): camera start/stop, the media    *)
(*     recorder, the series analysisDataRef and saveRecording, which       *)
(*     aggregates the series into the credibility summary;                 *)
(*   - FacialAnalysis (src/src/react-app/components/FacialAnalysis.tsx):   *)
(*     the per-frame analysis loop and the sampled classifier call.        *)
(* JavaScript numbers are modelled as exact rationals [n, d]; FloatSpec     *)
(* adds the rounding of binary floating point to the mean of the stress    *)
(* scores, with a significand of PrecisionBits bits.                       *)
(***************************************************************************)
EXTENDS Integers, Sequences, FiniteSets, TLC

(***************************************************************************)
(* Bounds of the model.                                                    *)
(***************************************************************************)
MaxStarts == 2
MaxFrames == 2
MaxChunks == 1
MaxLen == 3
NumFrames == 25
PrecisionBits == 4
MaxQuestions == 1
MaxAnalyses == 2
MaxTime == 3
\* the number of objects one list call of the bucket returns at most (it stands
\* for the 1000 of R2)
ListLimit == 2

(***************************************************************************)
(* Program constants.                                                      *)
(***************************************************************************)
SampleEvery == 10
StressWeight == 40
AuthenticityWeight == 30
ExpressionWeight == 30
LowBelow == 40
MediumBelow == 70

(***************************************************************************)
(* Exact rational arithmetic standing for JavaScript number arithmetic.    *)
(***************************************************************************)
RECURSIVE GCD(_, _)
GCD(a, b) == IF b = 0 THEN a ELSE GCD(b, a % b)

Abs(x) == IF x < 0 THEN -x ELSE x

Q(n, d) ==
  LET g == GCD(Abs(n), d)
  IN  [n |-> n \div g, d |-> d \div g]

QInt(k) == [n |-> k, d |-> 1]
QAdd(a, b) == Q(a.n * b.d + b.n * a.d, a.d * b.d)
QSub(a, b) == Q(a.n * b.d - b.n * a.d, a.d * b.d)
QMul(a, b) == Q(a.n * b.n, a.d * b.d)
QDivInt(a, k) == Q(a.n, a.d * k)
QLt(a, b) == a.n * b.d < b.n * a.d
QLe(a, b) == a.n * b.d <= b.n * a.d
QMax(a, b) == IF QLt(a, b) THEN b ELSE a
QMin(a, b) == IF QLt(b, a) THEN b ELSE a

QDiv(a, b) == Q(a.n * b.d, a.d * b.n)

RECURSIVE Pow2(_)
Pow2(k) == IF k = 0 THEN 1 ELSE 2 * Pow2(k - 1)

\* 2^e as a number, e of either sign
Ulp(e) == IF e >= 0 THEN QInt(Pow2(e)) ELSE Q(1, Pow2(-e))

\* The result of a floating-point operation whose exact value is a >= 0: a
\* rounded to the nearest number with a significand of PrecisionBits bits, a
\* tie going to the even significand (IEEE 754 roundTiesToEven).
FlRound(a) ==
  IF a.n = 0 THEN a
  ELSE LET e == CHOOSE x \in (0 - 4 * PrecisionBits)..4 :
                  /\ QLe(QMul(QInt(Pow2(PrecisionBits - 1)), Ulp(x)), a)
                  /\ QLt(a, QMul(QInt(Pow2(PrecisionBits)), Ulp(x)))
           t  == QDiv(a, Ulp(e))
           fl == t.n \div t.d
           r2 == 2 * (t.n % t.d)
           m  == IF r2 < t.d THEN fl
                 ELSE IF r2 > t.d THEN fl + 1
                 ELSE IF fl % 2 = 0 THEN fl ELSE fl + 1
       IN  QMul(QInt(m), Ulp(e))

\* Math.round: the nearest integer, halves rounded towards +Infinity.
MathRound(a) == (2 * a.n + a.d) \div (2 * a.d)

\* The value undefined / null of an optional field.
Undefined == [undefined |-> TRUE]

(***************************************************************************)
(* Labels of the two classifier axes, in the order the code enumerates     *)
(* them.                                                                   *)
(***************************************************************************)
expressionLabels == <<"Angry", "Disgust", "Fear", "Happy", "Neutral", "Sad", "Surprise">>
authenticityLabels == <<"Fake", "Genuine">>
LabelsOf(labels) == {labels[i] : i \in 1..Len(labels)}
negativeExpressions == {"Angry", "Disgust", "Fear", "Sad"}

\* probabilities[label] || 0
ProbOrZero(probabilities, label) ==
  IF label \in DOMAIN probabilities THEN probabilities[label] ELSE QInt(0)

(***************************************************************************)
(* The frame signal extractor and the stress estimator of analyze().       *)
(* A face is the blendshape category list of the landmark model: a         *)
(* function from category names to scores.                                 *)
(***************************************************************************)
\* blendshapes.find(b => b.categoryName === name)?.score || 0
ScoreOrZero(blendshapes, name) ==
  IF name \in DOMAIN blendshapes THEN blendshapes[name] ELSE QInt(0)

EyeData(blendshapes) ==
  [leftEyeBlink  |-> ScoreOrZero(blendshapes, "eyeBlinkLeft"),
   rightEyeBlink |-> ScoreOrZero(blendshapes, "eyeBlinkRight"),
   eyeLookDown   |-> ScoreOrZero(blendshapes, "eyeLookDownLeft"),
   eyeLookUp     |-> ScoreOrZero(blendshapes, "eyeLookUpLeft")]

ExpressionData(blendshapes) ==
  [mouthSmile |-> ScoreOrZero(blendshapes, "mouthSmileLeft"),
   mouthFrown |-> ScoreOrZero(blendshapes, "mouthFrownLeft"),
   browFurrow |-> ScoreOrZero(blendshapes, "browDownLeft"),
   jawOpen    |-> ScoreOrZero(blendshapes, "jawOpen")]

\* Faulty variant of StressScore (the two blink scores are added, not
\* averaged), against which C19 is tested.
StressScoreBlinkSum(eyeData, expressionData) ==
  QAdd(QAdd(QMul(QAdd(eyeData.leftEyeBlink, eyeData.rightEyeBlink), Q(3, 10)),
            QMul(expressionData.browFurrow, Q(4, 10))),
       QMul(expressionData.mouthFrown, Q(3, 10)))

StressScore(eyeData, expressionData) ==
  QAdd(QAdd(QMul(QDivInt(QAdd(eyeData.leftEyeBlink, eyeData.rightEyeBlink), 2), Q(3, 10)),
            QMul(expressionData.browFurrow, Q(4, 10))),
       QMul(expressionData.mouthFrown, Q(3, 10)))

\* The entry onAnalysisData pushes: the record of one frame.  frame and inst
\* identify the frame the record was captured from (the loop's frameCount and
\* the FacialAnalysis instance).
AnalysisEntry(blendshapes, expressionPrediction, authenticityPrediction, inst, frame) ==
  [eyeData                |-> EyeData(blendshapes),
   expressionData         |-> ExpressionData(blendshapes),
   stressScore            |-> StressScore(EyeData(blendshapes), ExpressionData(blendshapes)),
   expressionPrediction   |-> expressionPrediction,
   authenticityPrediction |-> authenticityPrediction,
   inst                   |-> inst,
   frame                  |-> frame]

(***************************************************************************)
(* The aggregation of saveRecording.                                       *)
(***************************************************************************)
RECURSIVE SumOver(_, _)
\* data.reduce((acc, d) => acc + f(d), 0), terms being f(d) in the order of data
SumOver(terms, k) ==
  IF k = 0 THEN QInt(0) ELSE QAdd(SumOver(terms, k - 1), terms[k])

FramesWithExpression(data) ==
  SelectSeq(data, LAMBDA d : d.expressionPrediction # Undefined)

FramesWithAuthenticity(data) ==
  SelectSeq(data, LAMBDA d : d.authenticityPrediction # Undefined)

LastExpression(data) ==
  LET fr == FramesWithExpression(data)
  IN  IF Len(fr) > 0 THEN fr[Len(fr)].expressionPrediction ELSE Undefined

LastAuthenticity(data) ==
  LET fr == FramesWithAuthenticity(data)
  IN  IF Len(fr) > 0 THEN fr[Len(fr)].authenticityPrediction ELSE Undefined

\* Faulty variant of AvgExpressionProbs (the mean of a label is taken over the
\* records whose probabilities list the label, not over every record that
\* carries a prediction), against which C24 is tested.
AvgExpressionProbsListed(fr) ==
  [label \in {expressionLabels[i] : i \in 1..Len(expressionLabels)} |->
     LET P(d) == ProbOrZero(d.expressionPrediction.probabilities, label)
         listed == SelectSeq(fr, LAMBDA d : label \in DOMAIN d.expressionPrediction.probabilities)
     IN  IF Len(listed) = 0 THEN QInt(0)
         ELSE QDivInt(SumOver([i \in 1..Len(fr) |-> P(fr[i])], Len(fr)), Len(listed))]

\* avgProbs over the expression labels: label -> sum / frames.length
AvgExpressionProbs(fr) ==
  [label \in {expressionLabels[i] : i \in 1..Len(expressionLabels)} |->
     LET P(d) == ProbOrZero(d.expressionPrediction.probabilities, label)
     IN  QDivInt(SumOver([i \in 1..Len(fr) |-> P(fr[i])], Len(fr)), Len(fr))]

AvgAuthenticityProbs(fr) ==
  [label \in {authenticityLabels[i] : i \in 1..Len(authenticityLabels)} |->
     LET P(d) == ProbOrZero(d.authenticityPrediction.probabilities, label)
     IN  QDivInt(SumOver([i \in 1..Len(fr) |-> P(fr[i])], Len(fr)), Len(fr))]

RECURSIVE ReduceMax(_, _, _)
\* keys.reduce((a, b) => avgProbs[a] > avgProbs[b] ? a : b) over the first k keys
ReduceMax(avgProbs, keys, k) ==
  IF k = 1 THEN keys[1]
  ELSE LET a == ReduceMax(avgProbs, keys, k - 1)
           b == keys[k]
       IN  IF QLt(avgProbs[b], avgProbs[a]) THEN a ELSE b

RECURSIVE ReduceMaxFirst(_, _, _)
ReduceMaxFirst(avgProbs, keys, k) ==
  IF k = 1 THEN keys[1]
  ELSE LET a == ReduceMaxFirst(avgProbs, keys, k - 1)
           b == keys[k]
       IN  IF QLe(avgProbs[b], avgProbs[a]) THEN a ELSE b

\* Faulty variant of MaxProbLabel (the reduce keeps a on a tie: >= for >),
\* against which C3 is tested.
MaxProbLabelFirstWins(avgProbs, keys) == ReduceMaxFirst(avgProbs, keys, Len(keys))

MaxProbLabel(avgProbs, keys) == ReduceMax(avgProbs, keys, Len(keys))

\* Faulty variant of AverageExpression (a series without expression
\* predictions gets a default aggregate instead of null), against which C16 is
\* tested.
AverageExpressionDefault(data) ==
  LET fr == FramesWithExpression(data)
  IN  IF Len(fr) > 0
      THEN LET avgProbs == AvgExpressionProbs(fr)
           IN  [expression |-> MaxProbLabel(avgProbs, expressionLabels),
                probabilities |-> avgProbs]
      ELSE [expression |-> "Neutral", probabilities |-> [Neutral |-> QInt(0)]]

AverageExpression(data) ==
  LET fr == FramesWithExpression(data)
  IN  IF Len(fr) > 0
      THEN LET avgProbs == AvgExpressionProbs(fr)
           IN  [expression |-> MaxProbLabel(avgProbs, expressionLabels),
                probabilities |-> avgProbs]
      ELSE Undefined

AverageAuthenticity(data) ==
  LET fr == FramesWithAuthenticity(data)
  IN  IF Len(fr) > 0
      THEN LET avgProbs == AvgAuthenticityProbs(fr)
           IN  [authenticity |-> MaxProbLabel(avgProbs, authenticityLabels),
                probabilities |-> avgProbs]
      ELSE Undefined

StressOf(d) == d.stressScore

AvgStress(data) ==
  IF Len(data) > 0 THEN QDivInt(SumOver([i \in 1..Len(data) |-> StressOf(data[i])], Len(data)), Len(data)) ELSE QInt(0)

RECURSIVE SumRounded(_, _)
\* the same reduce, each addition rounded
SumRounded(terms, k) ==
  IF k = 0 THEN QInt(0) ELSE FlRound(QAdd(SumRounded(terms, k - 1), terms[k]))

\* avgStress as floating-point arithmetic computes it
AvgStressRounded(data) ==
  IF Len(data) > 0
  THEN FlRound(QDivInt(SumRounded([i \in 1..Len(data) |-> StressOf(data[i])], Len(data)),
                       Len(data)))
  ELSE QInt(0)

RECURSIVE MaxStressUpTo(_, _)
MaxStressUpTo(data, k) ==
  IF k = 1 THEN data[1].stressScore
  ELSE QMax(MaxStressUpTo(data, k - 1), data[k].stressScore)

RECURSIVE MinStressUpTo(_, _)
MinStressUpTo(data, k) ==
  IF k = 1 THEN data[1].stressScore
  ELSE QMin(MinStressUpTo(data, k - 1), data[k].stressScore)

MaxStress(data) == IF Len(data) > 0 THEN MaxStressUpTo(data, Len(data)) ELSE QInt(0)
MinStress(data) == IF Len(data) > 0 THEN MinStressUpTo(data, Len(data)) ELSE QInt(0)

\* Faulty variant of ClampedScore (the expression penalty is left out), against
\* which C1 is tested.
ClampedScoreNoExpression(data) ==
  LET averageAuthenticity == AverageAuthenticity(data)
      s0 == QSub(QInt(100), QMul(AvgStress(data), QInt(StressWeight)))
      s1 == IF averageAuthenticity # Undefined
            THEN LET genuineness == ProbOrZero(averageAuthenticity.probabilities, "Genuine")
                 IN  QSub(s0, QMul(QSub(QInt(1), genuineness), QInt(AuthenticityWeight)))
            ELSE s0
  IN  QMax(QInt(0), QMin(QInt(100), s1))

\* Faulty variant of ClampedScore (the score is not clamped to 0..100), against
\* which C15 is tested.
ClampedScoreNotClamped(data) ==
  LET averageAuthenticity == AverageAuthenticity(data)
      averageExpression == AverageExpression(data)
      s0 == QSub(QInt(100), QMul(AvgStress(data), QInt(StressWeight)))
      s1 == IF averageAuthenticity # Undefined
            THEN LET genuineness == ProbOrZero(averageAuthenticity.probabilities, "Genuine")
                 IN  QSub(s0, QMul(QSub(QInt(1), genuineness), QInt(AuthenticityWeight)))
            ELSE s0
      s2 == IF averageExpression # Undefined
               /\ averageExpression.expression \in negativeExpressions
            THEN LET negativeProb == ProbOrZero(averageExpression.probabilities,
                                                averageExpression.expression)
                 IN  QSub(s1, QMul(negativeProb, QInt(ExpressionWeight)))
            ELSE s1
  IN  s2

\* Faulty variant of ClampedScore (a series without authenticity predictions is
\* charged the full authenticity penalty), against which C17 is tested.
ClampedScoreAbsentAsFake(data) ==
  LET averageAuthenticity == AverageAuthenticity(data)
      averageExpression == AverageExpression(data)
      s0 == QSub(QInt(100), QMul(AvgStress(data), QInt(StressWeight)))
      s1 == IF averageAuthenticity # Undefined
            THEN LET genuineness == ProbOrZero(averageAuthenticity.probabilities, "Genuine")
                 IN  QSub(s0, QMul(QSub(QInt(1), genuineness), QInt(AuthenticityWeight)))
            ELSE QSub(s0, QInt(AuthenticityWeight))
      s2 == IF averageExpression # Undefined
               /\ averageExpression.expression \in negativeExpressions
            THEN LET negativeProb == ProbOrZero(averageExpression.probabilities,
                                                averageExpression.expression)
                 IN  QSub(s1, QMul(negativeProb, QInt(ExpressionWeight)))
            ELSE s1
  IN  QMax(QInt(0), QMin(QInt(100), s2))

\* Faulty variant of ClampedScore (the authenticity term rewards the mean
\* Genuine probability instead of penalising its complement), against which
\* C28 is tested.
ClampedScoreGenuineBonus(data) ==
  LET averageAuthenticity == AverageAuthenticity(data)
      averageExpression == AverageExpression(data)
      s0 == QSub(QInt(100), QMul(AvgStress(data), QInt(StressWeight)))
      s1 == IF averageAuthenticity # Undefined
            THEN LET genuineness == ProbOrZero(averageAuthenticity.probabilities, "Genuine")
                 IN  QAdd(s0, QMul(genuineness, QInt(AuthenticityWeight)))
            ELSE s0
      s2 == IF averageExpression # Undefined
               /\ averageExpression.expression \in negativeExpressions
            THEN LET negativeProb == ProbOrZero(averageExpression.probabilities,
                                                averageExpression.expression)
                 IN  QSub(s1, QMul(negativeProb, QInt(ExpressionWeight)))
            ELSE s1
  IN  QMax(QInt(0), QMin(QInt(100), s2))

\* credibilityScore after the three penalties and the clamp, before rounding
ClampedScore(data) ==
  LET averageAuthenticity == AverageAuthenticity(data)
      averageExpression == AverageExpression(data)
      s0 == QSub(QInt(100), QMul(AvgStress(data), QInt(StressWeight)))
      s1 == IF averageAuthenticity # Undefined
            THEN LET genuineness == ProbOrZero(averageAuthenticity.probabilities, "Genuine")
                 IN  QSub(s0, QMul(QSub(QInt(1), genuineness), QInt(AuthenticityWeight)))
            ELSE s0
      s2 == IF averageExpression # Undefined
               /\ averageExpression.expression \in negativeExpressions
            THEN LET negativeProb == ProbOrZero(averageExpression.probabilities,
                                                averageExpression.expression)
                 IN  QSub(s1, QMul(negativeProb, QInt(ExpressionWeight)))
            ELSE s1
  IN  QMax(QInt(0), QMin(QInt(100), s2))

StatusOf(credibilityScore) ==
  IF QLt(credibilityScore, QInt(LowBelow)) THEN "low"
  ELSE IF QLt(credibilityScore, QInt(MediumBelow)) THEN "medium"
  ELSE "high"

\* analysisResults, the summary saveRecording builds from the series
AnalysisResults(data) ==
  LET credibilityScore == ClampedScore(data)
  IN  [finalResult  |-> [credibilityScore |-> MathRound(credibilityScore),
                         status |-> StatusOf(credibilityScore)],
       totalFrames  |-> Len(data),
       summary      |-> [averageStressScore |-> AvgStress(data),
                         maxStressScore |-> MaxStress(data),
                         minStressScore |-> MinStress(data)],
       expression   |-> [last |-> LastExpression(data), average |-> AverageExpression(data)],
       authenticity |-> [last |-> LastAuthenticity(data), average |-> AverageAuthenticity(data)]]

\* analysisResults with the mean of the stress scores rounded as floating-point
\* arithmetic rounds it (the maximum and the minimum are exact in it)
AnalysisResultsRounded(data) ==
  [AnalysisResults(data) EXCEPT !.summary.averageStressScore = AvgStressRounded(data)]

(***************************************************************************)
(* Inputs: what the landmark model and the classifier API can return.      *)
(***************************************************************************)
\* detectForVideo found no face (or no blendshape set)
NoFace == [noFace |-> TRUE]

FaceCalm == [jawOpen |-> Q(1, 2)]

FaceTense ==
  [eyeBlinkLeft |-> QInt(1), eyeBlinkRight |-> QInt(1),
   browDownLeft |-> QInt(1), mouthFrownLeft |-> QInt(1)]

FaceMixed == [eyeBlinkLeft |-> Q(1, 2), browDownLeft |-> Q(1, 2), mouthSmileLeft |-> QInt(1)]

\* bodies of POST /predict answers, as predictWithTensorFlowModel returns them
ResponseHappy ==
  [expression   |-> [expression |-> "Happy",
                     probabilities |-> [Happy |-> Q(3, 4), Sad |-> Q(1, 4)]],
   authenticity |-> [authenticity |-> "Genuine",
                     probabilities |-> [Fake |-> QInt(0), Genuine |-> QInt(1)]]]

ResponseSad ==
  [expression   |-> [expression |-> "Sad",
                     probabilities |-> [Happy |-> Q(1, 4), Sad |-> Q(3, 4)]],
   authenticity |-> [authenticity |-> "Fake",
                     probabilities |-> [Fake |-> Q(3, 4), Genuine |-> Q(1, 4)]]]

ResponseTie ==
  [expression   |-> [expression |-> "Angry",
                     probabilities |-> [Angry |-> Q(1, 2), Neutral |-> Q(1, 2)]],
   authenticity |-> [authenticity |-> "Fake",
                     probabilities |-> [Fake |-> Q(1, 2), Genuine |-> Q(1, 2)]]]

\* an answer of a classifier API that reports its probabilities in percent
ResponsePercent ==
  [expression   |-> [expression |-> "Sad",
                     probabilities |-> [Happy |-> QInt(25), Sad |-> QInt(75)]],
   authenticity |-> [authenticity |-> "Fake",
                     probabilities |-> [Fake |-> QInt(75), Genuine |-> QInt(25)]]]

\* the inputs of the specifications
RangeFaces == {FaceCalm, FaceTense}
RangeResponses == {ResponseSad, ResponsePercent}
SpecFaces == {FaceTense}
SpecResponses == {ResponseSad}
AggFaces == {FaceCalm, FaceTense, FaceMixed}
AggResponses == {ResponseHappy, ResponseSad, ResponseTie}
SamplerFaces == {FaceMixed}
SamplerResponses == {ResponseHappy, ResponseTie}

(***************************************************************************)
(* The R2 bucket of the worker.  A key is a sequence of characters and     *)
(* fixed pieces of text; the bucket is the sequence of its objects in the  *)
(* order they were put.                                                    *)
(***************************************************************************)
\* the session ids of the model, "1" and "10", and the session of the page
SessionIds == {<<"1">>, <<"1", "0">>}
PageSession == <<"1">>

\* the pieces of text keys are made of, in code-point order of their first
\* character
KeyChars == <<".json", "/", "0", "1", "2", "3", "4", "5", "6", "7", "8", "9",
              "analysis-", "recording-", "sessions">>

CharRank(c) == CHOOSE i \in DOMAIN KeyChars : KeyChars[i] = c

\* a millisecond count as text (the counts of the model have one digit, those
\* of Date.now() thirteen: all of one length either way)
Str(n) == <<KeyChars[n + 3]>>

\* `sessions/${sessionId}/analysis-${timestamp}.json`
AnalysisKey(sessionId, timestamp) ==
  <<"sessions", "/">> \o sessionId \o <<"/", "analysis-">> \o Str(timestamp) \o <<".json">>

\* Faulty variant of AnalysisPrefix (no separator behind the session id),
\* against which C29 is tested.
AnalysisPrefixNoSeparator(sessionId) == <<"sessions", "/">> \o sessionId

\* `sessions/${sessionId}/analysis-`
AnalysisPrefix(sessionId) == <<"sessions", "/">> \o sessionId \o <<"/", "analysis-">>

\* `sessions/${sessionId}/`
SessionPrefix(sessionId) == <<"sessions", "/">> \o sessionId \o <<"/">>

\* `sessions/${sessionId}/recording-${filename}`
RecordingKey(sessionId, filename) ==
  <<"sessions", "/">> \o sessionId \o <<"/", "recording-">> \o filename

\* key.split('/').pop(): what follows the last separator
Basename(key) ==
  LET slashes == {i \in DOMAIN key : key[i] = "/"}
      last == IF slashes = {} THEN 0 ELSE CHOOSE i \in slashes : \A j \in slashes : j <= i
  IN  SubSeq(key, last + 1, Len(key))

HasPrefix(key, prefix) ==
  /\ Len(prefix) <= Len(key)
  /\ SubSeq(key, 1, Len(prefix)) = prefix

\* lexicographic order of keys, the order list returns objects in
KeyLess(a, b) ==
  LET n == IF Len(a) < Len(b) THEN Len(a) ELSE Len(b)
      diff == {i \in 1..n : a[i] # b[i]}
  IN  IF diff = {} THEN Len(a) < Len(b)
      ELSE LET i == CHOOSE i \in diff : \A j \in diff : i <= j
           IN  CharRank(a[i]) < CharRank(b[i])

\* JSON.stringify and JSON.parse: a text holds the value it was made from
JsonStringify(value) == [json |-> value]
JsonParse(text) == text.json

Null == [null |-> TRUE]

\* R2_BUCKET.put: the object replaces the one stored under the same key
Put(bucket, object) ==
  Append(SelectSeq(bucket, LAMBDA o : o.key # object.key), object)

\* R2_BUCKET.get
Get(bucket, key) ==
  IF \E i \in DOMAIN bucket : bucket[i].key = key
  THEN bucket[CHOOSE i \in DOMAIN bucket : bucket[i].key = key]
  ELSE Null

\* R2_BUCKET.list({ prefix }).objects: the objects under the prefix in key
\* order, the first ListLimit of them (the call passes no limit and no cursor
\* and does not look at truncated)
List(bucket, prefix) ==
  LET matching == {bucket[i] : i \in {j \in DOMAIN bucket : HasPrefix(bucket[j].key, prefix)}}
      Position(o) == 1 + Cardinality({p \in matching : KeyLess(p.key, o.key)})
      n == IF Cardinality(matching) < ListLimit THEN Cardinality(matching) ELSE ListLimit
  IN  [i \in 1..n |-> CHOOSE o \in matching : Position(o) = i]

\* the analysis object POST /video puts at instant timestamp
StoreAnalysis(bucket, sessionId, timestamp, analysisText) ==
  Put(bucket, [key            |-> AnalysisKey(sessionId, timestamp),
               text           |-> analysisText,
               uploaded       |-> timestamp,
               customMetadata |-> [sessionId |-> sessionId, uploadedAt |-> timestamp]])

\* the instant of a request that follows every put of the bucket
Later(bucket) ==
  LET instants == {bucket[i].uploaded : i \in DOMAIN bucket}
  IN  IF instants = {} THEN 1
      ELSE 1 + (CHOOSE t \in instants : \A u \in instants : u <= t)

(***************************************************************************)
(* predictWithTensorFlowModel: the two classifier paths.                   *)
(***************************************************************************)
\* the label of a probability mapping the classifier server may answer with:
\* one whose probability no other exceeds
ClassifierLabels(probabilities) ==
  {label \in DOMAIN probabilities :
     \A other \in DOMAIN probabilities : QLe(probabilities[other], probabilities[label])}

\* the probability mappings of the answers of the model
ExpressionAnswers ==
  {[Happy |-> Q(3, 4), Sad |-> Q(1, 4)],
   [Angry |-> Q(1, 2), Neutral |-> Q(1, 2)],
   [Angry |-> QInt(0), Disgust |-> QInt(0), Fear |-> Q(1, 4), Happy |-> QInt(0),
    Neutral |-> QInt(0), Sad |-> Q(3, 4), Surprise |-> QInt(0)]}

AuthenticityAnswers ==
  {[Fake |-> Q(1, 4), Genuine |-> Q(3, 4)], [Fake |-> Q(1, 2), Genuine |-> Q(1, 2)]}

\* the bodies POST /predict of the classifier server answers with: on each axis
\* a probability mapping and the label that is its argmax
ApiAnswers ==
  {[expression   |-> [label |-> el, probabilities |-> ep],
    authenticity |-> [label |-> al, probabilities |-> ap]] :
      <<ep, el, ap, al>> \in
        {t \in ExpressionAnswers \X LabelsOf(expressionLabels)
                 \X AuthenticityAnswers \X LabelsOf(authenticityLabels) :
           t[2] \in ClassifierLabels(t[1]) /\ t[4] \in ClassifierLabels(t[3])}}

\* Faulty variant of PredictApi (the expression label is read from the
\* authenticity half of the answer), against which C25 is tested.
PredictApiWrongLabel(result) ==
  [expression   |-> [expression    |-> result.authenticity.label,
                     probabilities |-> result.expression.probabilities],
   authenticity |-> [authenticity  |-> result.authenticity.label,
                     probabilities |-> result.authenticity.probabilities]]

\* the API path: what predictWithTensorFlowModel makes of the parsed answer
PredictApi(result) ==
  [expression   |-> [expression    |-> result.expression.label,
                     probabilities |-> result.expression.probabilities],
   authenticity |-> [authenticity  |-> result.authenticity.label,
                     probabilities |-> result.authenticity.probabilities]]

\* Array.from(probs).indexOf(Math.max(...Array.from(probs))), counted from 1
IndexOfMax(probs) ==
  CHOOSE i \in DOMAIN probs :
    /\ \A j \in DOMAIN probs : QLe(probs[j], probs[i])
    /\ \A j \in 1..(i - 1) : QLt(probs[j], probs[i])

\* labels.forEach((label, idx) => { obj[label] = probs[idx] })
ProbObj(labels, probs) ==
  [label \in {labels[i] : i \in DOMAIN labels} |->
     probs[CHOOSE i \in DOMAIN labels : labels[i] = label]]

\* the TensorFlow.js path: what predictWithTensorFlowModel makes of the two
\* output tensors of the local model
PredictLocal(exprProbs, authProbs) ==
  [expression   |-> [expression    |-> expressionLabels[IndexOfMax(exprProbs)],
                     probabilities |-> ProbObj(expressionLabels, exprProbs)],
   authenticity |-> [authenticity  |-> authenticityLabels[IndexOfMax(authProbs)],
                     probabilities |-> ProbObj(authenticityLabels, authProbs)]]

\* the output tensors of the local model
ExpressionOutputs ==
  {<<QInt(0), QInt(0), Q(1, 4), QInt(0), QInt(0), Q(3, 4), QInt(0)>>,
   <<QInt(0), Q(1, 2), QInt(0), QInt(0), Q(1, 2), QInt(0), QInt(0)>>}

AuthenticityOutputs == {<<Q(3, 4), Q(1, 4)>>, <<Q(1, 2), Q(1, 2)>>}

(***************************************************************************)
(* State.                                                                  *)
(***************************************************************************)
VARIABLES
  cameraActive,     \* SessionPage state cameraActive
  cur,              \* number of camera starts: the FacialAnalysis instance mounted last
  mediaRecorder,    \* mediaRecorderRef.current: "null", or the recorder's state
  stopPending,      \* recordings whose recorder has a stop event queued
  recordedChunks,   \* recordedChunksRef.current.length
  analysisDataRef,  \* analysisDataRef.current, the series
  hasFilePicker,    \* 'showSaveFilePicker' in window
  save,             \* per recording: the saveRecording call its stop event started
  apiAnalysis,      \* R2_BUCKET: the analysis objects POST /api/sessions/:id/video stored
  inst,             \* per camera start: the FacialAnalysis instance and its loop
  db,               \* the worker's database rows of the session (transcript side)
  report            \* the AnalysisReport view of the session

vars == <<cameraActive, cur, mediaRecorder, stopPending, recordedChunks,
          analysisDataRef, hasFilePicker, save, apiAnalysis, inst, db, report>>

Starts == 1..MaxStarts

\* a FacialAnalysis instance that is not mounted yet
NewInstance ==
  [mounted        |-> FALSE,
   faceLandmarker |-> "none",     \* "none", "loading", "ready", "failed"
   probe          |-> "none",     \* the health probe: "none", "pending", "done", "failed"
   tfModel        |-> "null",     \* component state tfModel: "null" or "api"
   loopModel      |-> "null",     \* tfModel as the closure of the running loop sees it
   frameCount     |-> 0,
   raf            |-> FALSE,      \* analyze is scheduled with requestAnimationFrame
   inflight       |-> FALSE,      \* analyze is suspended in await predictWithTensorFlowModel
   pending        |-> Undefined,  \* results of detectForVideo held across the await
   sampled        |-> {}]         \* frame counts at which the predict endpoint was called

NoSave == [pc |-> "idle", analysisResults |-> Undefined]

\* the database of a session that has no question, analysis or report yet;
\* analyzeStatus is the status of the last answer of POST /analyze (0: none)
NoDb == [questions |-> 0, nlp_analysis |-> <<>>, session_reports |-> <<>>,
         analyzeStatus |-> 0]

\* the report view before it is opened: analysis and error are component state,
\* alerted records that the failure alert was shown, status is the status of
\* the last answer of POST /analyze the view received (0: none)
NoReport == [open |-> FALSE, analysis |-> Undefined, alerted |-> FALSE, status |-> 0]

Init ==
  /\ cameraActive = FALSE
  /\ cur = 0
  /\ mediaRecorder = "null"
  /\ stopPending = {}
  /\ recordedChunks = 0
  /\ analysisDataRef = <<>>
  /\ hasFilePicker \in BOOLEAN
  /\ db = NoDb
  /\ save = [k \in Starts |-> NoSave]
  /\ apiAnalysis = <<>>
  /\ report = NoReport
  /\ inst = [k \in Starts |-> NewInstance]

(***************************************************************************)
(* FacialAnalysis: the analysis loop.                                      *)
(***************************************************************************)
\* Faulty variant of AfterFrame (a classifier call that failed ends analyze()
\* before the record is reported and the next frame requested), against which
\* C12 is tested.
AfterFrameAbortsOnFailure(l, k, face, tfResults) ==
  IF l.inflight /\ tfResults = Undefined
  THEN [loop    |-> [l EXCEPT !.inflight = FALSE, !.pending = Undefined],
        entries |-> <<>>]
  ELSE [loop    |-> [l EXCEPT !.frameCount = @ + 1, !.raf = TRUE,
                              !.inflight = FALSE, !.pending = Undefined],
        entries |-> IF face # NoFace
                    THEN <<AnalysisEntry(face,
                             IF tfResults # Undefined THEN tfResults.expression ELSE Undefined,
                             IF tfResults # Undefined THEN tfResults.authenticity ELSE Undefined,
                             k, l.frameCount)>>
                    ELSE <<>>]

\* Faulty variant of AfterFrame (only the expression prediction of the answer
\* is kept), against which C26 is tested.
AfterFrameExpressionOnly(l, k, face, tfResults) ==
  [loop    |-> [l EXCEPT !.frameCount = @ + 1, !.raf = TRUE,
                         !.inflight = FALSE, !.pending = Undefined],
   entries |-> IF face # NoFace
               THEN <<AnalysisEntry(face,
                        IF tfResults # Undefined THEN tfResults.expression ELSE Undefined,
                        Undefined,
                        k, l.frameCount)>>
               ELSE <<>>]

\* Faulty variant of AfterFrame (a frame without a face reports a record that
\* holds the predictions only), against which C23 is tested.
AfterFrameReportsNoFace(l, k, face, tfResults) ==
  [loop    |-> [l EXCEPT !.frameCount = @ + 1, !.raf = TRUE,
                         !.inflight = FALSE, !.pending = Undefined],
   entries |-> IF face # NoFace
               THEN <<AnalysisEntry(face,
                        IF tfResults # Undefined THEN tfResults.expression ELSE Undefined,
                        IF tfResults # Undefined THEN tfResults.authenticity ELSE Undefined,
                        k, l.frameCount)>>
               ELSE <<[expressionPrediction   |-> Undefined,
                       authenticityPrediction |-> Undefined,
                       inst                   |-> k,
                       frame                  |-> l.frameCount]>>]

\* analyze() from frameCount++ on: the entry it reports and the rescheduling
AfterFrame(l, k, face, tfResults) ==
  [loop    |-> [l EXCEPT !.frameCount = @ + 1, !.raf = TRUE,
                         !.inflight = FALSE, !.pending = Undefined],
   entries |-> IF face # NoFace
               THEN <<AnalysisEntry(face,
                        IF tfResults # Undefined THEN tfResults.expression ELSE Undefined,
                        IF tfResults # Undefined THEN tfResults.authenticity ELSE Undefined,
                        k, l.frameCount)>>
               ELSE <<>>]

\* Faulty variant of AnalyzeBody (the classifier call is not awaited before the
\* next frame is requested), against which C9 is tested.
AnalyzeBodyNotAwaited(l, k, face) ==
  IF l.loopModel # "null" /\ l.frameCount % SampleEvery = 0 /\ ~l.inflight
  THEN [loop    |-> [l EXCEPT !.raf = TRUE, !.inflight = TRUE, !.pending = face,
                              !.sampled = @ \cup {l.frameCount}],
        entries |-> <<>>]
  ELSE AfterFrame(l, k, face, Undefined)

\* Faulty variant of AnalyzeBody (frameCount is incremented before the cadence
\* test), against which C10 is tested.
AnalyzeBodyCountFirst(l, k, face) ==
  IF l.loopModel # "null" /\ (l.frameCount + 1) % SampleEvery = 0
  THEN [loop    |-> [l EXCEPT !.raf = FALSE, !.inflight = TRUE, !.pending = face,
                              !.sampled = @ \cup {l.frameCount}],
        entries |-> <<>>]
  ELSE AfterFrame(l, k, face, Undefined)

\* analyze() on a video that has data, up to its first await or its end
AnalyzeBody(l, k, face) ==
  IF l.loopModel # "null" /\ l.frameCount % SampleEvery = 0
  THEN [loop    |-> [l EXCEPT !.raf = FALSE, !.inflight = TRUE, !.pending = face,
                              !.sampled = @ \cup {l.frameCount}],
        entries |-> <<>>]
  ELSE AfterFrame(l, k, face, Undefined)

\* initializeFaceLandmarker resolves; when the component is still mounted the
\* effect runs startAnalysis, which calls analyze() at once.  A video without
\* data (ready = FALSE) makes analyze only reschedule itself.
LandmarkerReady(k, ready, face) ==
  /\ inst[k].faceLandmarker = "loading"
  /\ LET l0 == [inst[k] EXCEPT !.faceLandmarker = "ready"]
     IN  IF inst[k].mounted
         THEN LET l1 == [l0 EXCEPT !.loopModel = inst[k].tfModel, !.frameCount = 0]
                  r  == IF ready THEN AnalyzeBody(l1, k, face)
                        ELSE [loop |-> [l1 EXCEPT !.raf = TRUE], entries |-> <<>>]
              IN  /\ inst' = [inst EXCEPT ![k] = r.loop]
                  /\ analysisDataRef' = analysisDataRef \o r.entries
         ELSE /\ inst' = [inst EXCEPT ![k] = l0]
              /\ UNCHANGED analysisDataRef
  /\ UNCHANGED <<cameraActive, cur, mediaRecorder, stopPending, recordedChunks,
                 hasFilePicker, save, apiAnalysis, db, report>>

LandmarkerFailed(k) ==
  /\ inst[k].faceLandmarker = "loading"
  /\ inst' = [inst EXCEPT ![k].faceLandmarker = "failed"]
  /\ UNCHANGED <<cameraActive, cur, mediaRecorder, stopPending, recordedChunks,
                 analysisDataRef, hasFilePicker, save, apiAnalysis, db, report>>

\* Faulty variant of HealthDone (the component connects whatever the probe
\* answered), against which C13 is tested.
HealthDoneConnectsAnyway(k, modelLoaded) ==
  /\ inst[k].probe = "pending"
  /\ inst' = [inst EXCEPT ![k].probe = IF modelLoaded THEN "done" ELSE "failed",
                          ![k].tfModel = IF inst[k].mounted THEN "api" ELSE @]
  /\ UNCHANGED <<cameraActive, cur, mediaRecorder, stopPending, recordedChunks,
                 analysisDataRef, hasFilePicker, save, apiAnalysis, db, report>>

\* loadTensorFlowModel: the health probe answers that the model is loaded
\* (modelLoaded), or it fails: the fetch rejects, the response is not OK or
\* model_loaded is false
HealthDone(k, modelLoaded) ==
  /\ inst[k].probe = "pending"
  /\ inst' = [inst EXCEPT ![k].probe = IF modelLoaded THEN "done" ELSE "failed",
                          ![k].tfModel = IF modelLoaded /\ inst[k].mounted THEN "api" ELSE @]
  /\ UNCHANGED <<cameraActive, cur, mediaRecorder, stopPending, recordedChunks,
                 analysisDataRef, hasFilePicker, save, apiAnalysis, db, report>>

\* a scheduled frame callback runs on a video that has data; the video element
\* has data only while a camera stream is attached.  (On a video without data
\* the callback only reschedules itself and the state does not change.)
AnalyzeFrame(k, face, frameLimit) ==
  /\ inst[k].raf
  /\ cameraActive
  /\ inst[k].frameCount < frameLimit
  /\ LET r == AnalyzeBody(inst[k], k, face)
     IN  /\ inst' = [inst EXCEPT ![k] = r.loop]
         /\ analysisDataRef' = analysisDataRef \o r.entries
  /\ UNCHANGED <<cameraActive, cur, mediaRecorder, stopPending, recordedChunks,
                 hasFilePicker, save, apiAnalysis, db, report>>

\* the pending predictWithTensorFlowModel settles: tfResults is the answer of
\* the API, or Undefined (null) when the call failed
PredictDone(k, tfResults) ==
  /\ inst[k].inflight
  /\ LET r == AfterFrame(inst[k], k, inst[k].pending, tfResults)
     IN  /\ inst' = [inst EXCEPT ![k] = r.loop]
         /\ analysisDataRef' = analysisDataRef \o r.entries
  /\ UNCHANGED <<cameraActive, cur, mediaRecorder, stopPending, recordedChunks,
                 hasFilePicker, save, apiAnalysis, db, report>>

(***************************************************************************)
(* SessionPage: camera, media recorder and saveRecording.                  *)
(***************************************************************************)
\* startCamera once getUserMedia has resolved, with startRecording: the new
\* MediaRecorder starts, or both constructors throw (recorderStarts = FALSE)
\* and mediaRecorderRef keeps what it held.  cameraActive mounts a new
\* FacialAnalysis, whose mount effect starts the landmark model and the probe.
\* The stop task of the previous recorder, queued by stopCamera, runs before the
\* click that starts the camera again.
StartCamera(recorderStarts) ==
  /\ ~cameraActive
  /\ stopPending = {}
  /\ cur < MaxStarts
  /\ cameraActive' = TRUE
  /\ cur' = cur + 1
  /\ recordedChunks' = 0
  /\ mediaRecorder' = IF recorderStarts THEN "recording" ELSE mediaRecorder
  /\ inst' = [inst EXCEPT ![cur + 1] = [NewInstance EXCEPT !.mounted = TRUE,
                                                          !.faceLandmarker = "loading",
                                                          !.probe = "pending"]]
  /\ UNCHANGED <<stopPending, analysisDataRef, hasFilePicker, save, apiAnalysis, db, report>>

\* mediaRecorder.ondataavailable with a chunk of positive size
DataAvailable ==
  /\ mediaRecorder = "recording"
  /\ recordedChunks < MaxChunks
  /\ recordedChunks' = recordedChunks + 1
  /\ UNCHANGED <<cameraActive, cur, mediaRecorder, stopPending, analysisDataRef,
                 hasFilePicker, save, apiAnalysis, inst, db, report>>

\* stopCamera, with the unmount of FacialAnalysis that setCameraActive(false)
\* causes: its cleanup cancels the frame callback animationFrameRef names
StopCamera ==
  /\ cameraActive
  /\ IF mediaRecorder = "recording"
     THEN /\ mediaRecorder' = "inactive"
          /\ stopPending' = stopPending \cup {cur}
     ELSE UNCHANGED <<mediaRecorder, stopPending>>
  /\ cameraActive' = FALSE
  /\ inst' = [inst EXCEPT ![cur].mounted = FALSE, ![cur].raf = FALSE]
  /\ UNCHANGED <<cur, recordedChunks, analysisDataRef, hasFilePicker, save, apiAnalysis, db, report>>

\* The recorder's stop task: the last dataavailable (finalChunk: with data or
\* empty), then onstop, which runs saveRecording up to its first await.
OnStop(k, finalChunk) ==
  /\ k \in stopPending
  /\ stopPending' = stopPending \ {k}
  /\ LET chunks == IF finalChunk /\ recordedChunks < MaxChunks
                   THEN recordedChunks + 1 ELSE recordedChunks
     IN  /\ recordedChunks' = chunks
         /\ save' = [save EXCEPT ![k] =
                       IF chunks = 0
                       THEN [pc |-> "nodata", analysisResults |-> Undefined]
                       ELSE [pc |-> IF hasFilePicker THEN "picker" ELSE "upload",
                             analysisResults |-> AnalysisResults(analysisDataRef)]]
  /\ UNCHANGED <<cameraActive, cur, mediaRecorder, analysisDataRef, hasFilePicker,
                 apiAnalysis, inst, db, report>>

\* OnStop with the summary as floating-point arithmetic computes it
OnStopRounded(k, finalChunk) ==
  /\ k \in stopPending
  /\ stopPending' = stopPending \ {k}
  /\ LET chunks == IF finalChunk /\ recordedChunks < MaxChunks
                   THEN recordedChunks + 1 ELSE recordedChunks
     IN  /\ recordedChunks' = chunks
         /\ save' = [save EXCEPT ![k] =
                       IF chunks = 0
                       THEN [pc |-> "nodata", analysisResults |-> Undefined]
                       ELSE [pc |-> IF hasFilePicker THEN "picker" ELSE "upload",
                             analysisResults |-> AnalysisResultsRounded(analysisDataRef)]]
  /\ UNCHANGED <<cameraActive, cur, mediaRecorder, analysisDataRef, hasFilePicker,
                 apiAnalysis, inst, db, report>>

\* showSaveFilePicker and the file write settle (saved, cancelled, or failed
\* and downloaded instead): saveRecording goes on to the upload
PickerDone(k) ==
  /\ save[k].pc = "picker"
  /\ save' = [save EXCEPT ![k].pc = "upload"]
  /\ UNCHANGED <<cameraActive, cur, mediaRecorder, stopPending, recordedChunks,
                 analysisDataRef, hasFilePicker, apiAnalysis, inst, db, report>>

\* the POST of video and analysis settles (ok, or not ok / rejected), then the
\* finally block clears the chunks and the series
UploadDone(k, ok) ==
  /\ save[k].pc = "upload"
  /\ save' = [save EXCEPT ![k].pc = "done"]
  /\ apiAnalysis' = IF ok
                    THEN StoreAnalysis(apiAnalysis, PageSession, Later(apiAnalysis),
                                       JsonStringify(save[k].analysisResults))
                    ELSE apiAnalysis
  /\ recordedChunks' = 0
  /\ analysisDataRef' = <<>>
  /\ UNCHANGED <<cameraActive, cur, mediaRecorder, stopPending, hasFilePicker, inst, db, report>>

(***************************************************************************)
(* The worker: the transcript side of a session (questions, POST /analyze, *)
(* GET /report) and the reading of the stored video summary.               *)
(***************************************************************************)
\* credibility_score values the language model may answer with
LlmScores == {Q(1, 4), Q(3, 4)}

\* POST /api/sessions/:id/questions
PostQuestion ==
  /\ db.questions < MaxQuestions
  /\ db' = [db EXCEPT !.questions = @ + 1]
  /\ UNCHANGED <<cameraActive, cur, mediaRecorder, stopPending, recordedChunks,
                 analysisDataRef, hasFilePicker, save, apiAnalysis, inst, report>>

\* Faulty variant of PostAnalyze (a successful transcript analysis overwrites
\* the score of the stored video summaries with its own), against which C20 is
\* tested.
PostAnalyzeReconciles(outcome, score) ==
  /\ Len(db.nlp_analysis) < MaxAnalyses
  /\ IF db.questions = 0
     THEN db' = [db EXCEPT !.analyzeStatus = 400]
     ELSE IF outcome = "llmFailed"
     THEN db' = [db EXCEPT !.analyzeStatus = 500]
     ELSE IF outcome = "reportFailed"
     THEN db' = [db EXCEPT !.nlp_analysis = Append(@, score), !.analyzeStatus = 500]
     ELSE db' = [db EXCEPT !.nlp_analysis = Append(@, score),
                           !.session_reports =
                              Append(@, [nlp_analysis |-> [credibility_score |-> score]]),
                           !.analyzeStatus = 200]
  /\ apiAnalysis' = IF db.questions > 0 /\ outcome = "ok"
                    THEN [i \in DOMAIN apiAnalysis |->
                            [apiAnalysis[i] EXCEPT !.text.json.finalResult.credibilityScore = 0]]
                    ELSE apiAnalysis
  /\ UNCHANGED <<cameraActive, cur, mediaRecorder, stopPending, recordedChunks,
                 analysisDataRef, hasFilePicker, save, inst, report>>

\* POST /api/sessions/:id/analyze: 400 without questions; 500 when the language
\* model call or the parsing of its answer fails (nothing written) or when the
\* insert of the report fails (the nlp_analysis row is written already);
\* otherwise both rows are written and the analysis is answered
PostAnalyze(outcome, score) ==
  /\ Len(db.nlp_analysis) < MaxAnalyses
  /\ IF db.questions = 0
     THEN db' = [db EXCEPT !.analyzeStatus = 400]
     ELSE IF outcome = "llmFailed"
     THEN db' = [db EXCEPT !.analyzeStatus = 500]
     ELSE IF outcome = "reportFailed"
     THEN db' = [db EXCEPT !.nlp_analysis = Append(@, score), !.analyzeStatus = 500]
     ELSE db' = [db EXCEPT !.nlp_analysis = Append(@, score),
                           !.session_reports =
                              Append(@, [nlp_analysis |-> [credibility_score |-> score]]),
                           !.analyzeStatus = 200]
  /\ UNCHANGED <<cameraActive, cur, mediaRecorder, stopPending, recordedChunks,
                 analysisDataRef, hasFilePicker, save, apiAnalysis, inst, report>>

\* the answer of GET /api/sessions/:id/report: the report inserted last
GetReport ==
  IF db.session_reports = <<>> THEN [status |-> 404]
  ELSE [status |-> 200, body |-> db.session_reports[Len(db.session_reports)]]

(***************************************************************************)
(* AnalysisReport: the report view of the session.                         *)
(***************************************************************************)
\* the rows of the session after POST /api/sessions/:id/analyze ran
AnalyzeRows(outcome, score) ==
  IF db.questions = 0
  THEN [db EXCEPT !.analyzeStatus = 400]
  ELSE IF outcome = "llmFailed"
  THEN [db EXCEPT !.analyzeStatus = 500]
  ELSE IF outcome = "reportFailed"
  THEN [db EXCEPT !.nlp_analysis = Append(@, score), !.analyzeStatus = 500]
  ELSE [db EXCEPT !.nlp_analysis = Append(@, score),
                  !.session_reports =
                     Append(@, [nlp_analysis |-> [credibility_score |-> score]]),
                  !.analyzeStatus = 200]

\* the answer of POST /api/sessions/:id/analyze: the analysis, or an error body
AnalyzeResponse(outcome, score) ==
  IF db.questions = 0
  THEN [status |-> 400, body |-> [error |-> "No questions found for this session"]]
  ELSE IF outcome \in {"llmFailed", "reportFailed"}
  THEN [status |-> 500, body |-> [error |-> "Failed to analyze session"]]
  ELSE [status |-> 200, body |-> [credibility_score |-> score]]

\* the report modal is opened: the view mounts and loadReport adopts the stored
\* report when GET /report answers ok
OpenReport ==
  /\ ~report.open
  /\ report' = [NoReport EXCEPT
                  !.open = TRUE,
                  !.analysis = IF GetReport.status = 200
                               THEN GetReport.body.nlp_analysis ELSE Undefined]
  /\ UNCHANGED <<cameraActive, cur, mediaRecorder, stopPending, recordedChunks,
                 analysisDataRef, hasFilePicker, save, apiAnalysis, inst, db>>

\* onClose: the view unmounts and its state is gone
CloseReport ==
  /\ report.open
  /\ report' = NoReport
  /\ UNCHANGED <<cameraActive, cur, mediaRecorder, stopPending, recordedChunks,
                 analysisDataRef, hasFilePicker, save, apiAnalysis, inst, db>>

\* generateReport (the generate and the regenerate button): POST /analyze, then
\* setAnalysis with the parsed body of whatever was answered; the alert is
\* shown only when fetch or the parsing of the body throws
GenerateReport(outcome, score) ==
  /\ report.open
  /\ Len(db.nlp_analysis) < MaxAnalyses
  /\ IF outcome = "networkError"
     THEN /\ report' = [report EXCEPT !.alerted = TRUE, !.status = 0]
          /\ UNCHANGED db
     ELSE /\ db' = AnalyzeRows(outcome, score)
          /\ report' = [report EXCEPT
                          !.analysis = AnalyzeResponse(outcome, score).body,
                          !.alerted = FALSE,
                          !.status = AnalyzeResponse(outcome, score).status]
  /\ UNCHANGED <<cameraActive, cur, mediaRecorder, stopPending, recordedChunks,
                 analysisDataRef, hasFilePicker, save, apiAnalysis, inst>>

\* POST /api/sessions/:id/video with an analysis file, at instant timestamp
\* (no instant is earlier than one that passed): the analysis text is put
\* under the key of the session and the instant; a request without a video
\* file is answered 400 and one whose put fails 500, nothing stored
PostVideo(sessionId, timestamp, analysisText, outcome) ==
  /\ \A i \in DOMAIN apiAnalysis : apiAnalysis[i].uploaded <= timestamp
  /\ apiAnalysis' = IF outcome = "stored"
                    THEN StoreAnalysis(apiAnalysis, sessionId, timestamp, analysisText)
                    ELSE apiAnalysis
  /\ UNCHANGED <<cameraActive, cur, mediaRecorder, stopPending, recordedChunks,
                 analysisDataRef, hasFilePicker, save, inst, db, report>>

\* the answer of GET /api/sessions/:id/video-analysis: of the objects listed
\* under the analysis prefix of the session, the one uploaded last
GetVideoAnalysis(sessionId) ==
  LET objects == List(apiAnalysis, AnalysisPrefix(sessionId))
  IN  IF Len(objects) = 0 THEN [status |-> 404]
      ELSE LET first == CHOOSE i \in DOMAIN objects :
                          \A j \in DOMAIN objects :
                             \/ objects[j].uploaded < objects[i].uploaded
                             \/ objects[j].uploaded = objects[i].uploaded /\ i <= j
               analysisObject == Get(apiAnalysis, objects[first].key)
           IN  IF analysisObject = Null THEN [status |-> 404]
               ELSE [status |-> 200, body |-> JsonParse(analysisObject.text)]

\* the answer of GET /api/sessions/:id/videos: every object under the prefix
\* of the session, with the url made of the last segment of its key
ListVideos(sessionId) ==
  LET objects == List(apiAnalysis, SessionPrefix(sessionId))
  IN  [status |-> 200,
       videos |-> [i \in DOMAIN objects |->
                     [key      |-> objects[i].key,
                      uploaded |-> objects[i].uploaded,
                      url      |-> [sessionId |-> sessionId,
                                    filename  |-> Basename(objects[i].key)]]]]

\* the answer of GET /api/sessions/:id/video/:filename
GetVideo(sessionId, filename) ==
  LET object == Get(apiAnalysis, RecordingKey(sessionId, filename))
  IN  IF object = Null THEN [status |-> 404]
      ELSE [status |-> 200, body |-> object.text]

(***************************************************************************)
(* Spec: the page with its camera sessions, loops and saves.               *)
(***************************************************************************)
Outcomes(responses) == responses \cup {Undefined}
Detections(faces) == faces \cup {NoFace}

Next ==
  \/ \E recorderStarts \in BOOLEAN : StartCamera(recorderStarts)
  \/ DataAvailable
  \/ StopCamera
  \/ \E k \in Starts, finalChunk \in BOOLEAN : OnStop(k, finalChunk)
  \/ \E k \in Starts : PickerDone(k)
  \/ \E k \in Starts, ok \in BOOLEAN : UploadDone(k, ok)
  \/ \E k \in Starts, ready \in BOOLEAN, face \in Detections(SpecFaces) :
       LandmarkerReady(k, ready, face)
  \/ \E k \in Starts : LandmarkerFailed(k)
  \/ \E k \in Starts, modelLoaded \in BOOLEAN : HealthDone(k, modelLoaded)
  \/ \E k \in Starts, face \in Detections(SpecFaces) : AnalyzeFrame(k, face, MaxFrames)
  \/ \E k \in Starts, tfResults \in Outcomes(SpecResponses) : PredictDone(k, tfResults)

Spec == Init /\ [][Next]_vars

(***************************************************************************)
(* AggSpec: saveRecording on the series of a stopped recording.  The       *)
(* series is any sequence of up to MaxLen entries; entry i is the frame    *)
(* with frame count SampleEvery * (i - 1), on which the classifier was     *)
(* called and answered or failed (the frames in between showed no face).   *)
(***************************************************************************)
AggInputs == AggFaces \X Outcomes(AggResponses)

SeriesOf(inputs) ==
  [i \in 1..Len(inputs) |->
     AfterFrame([NewInstance EXCEPT !.frameCount = SampleEvery * (i - 1)],
                1, inputs[i][1], inputs[i][2]).entries[1]]

AggInit ==
  /\ cameraActive = FALSE
  /\ cur = 1
  /\ mediaRecorder = "inactive"
  /\ stopPending = {1}
  /\ recordedChunks \in {0, MaxChunks}
  /\ hasFilePicker \in BOOLEAN
  /\ db = NoDb
  /\ save = [k \in Starts |-> NoSave]
  /\ apiAnalysis = <<>>
  /\ report = NoReport
  /\ \E n \in 0..MaxLen : \E inputs \in [1..n -> AggInputs] :
       /\ analysisDataRef = SeriesOf(inputs)
       /\ inst = [k \in Starts |->
                    IF k = 1
                    THEN [NewInstance EXCEPT
                            !.faceLandmarker = "ready", !.probe = "done",
                            !.tfModel = "api", !.loopModel = "api",
                            !.frameCount = IF n = 0 THEN 0 ELSE SampleEvery * (n - 1) + 1,
                            !.sampled = {SampleEvery * (i - 1) : i \in 1..n}]
                    ELSE NewInstance]

AggNext ==
  \/ \E k \in Starts, finalChunk \in BOOLEAN : OnStop(k, finalChunk)
  \/ \E k \in Starts : PickerDone(k)
  \/ \E k \in Starts, ok \in BOOLEAN : UploadDone(k, ok)

AggSpec == AggInit /\ [][AggNext]_vars

(***************************************************************************)
(* RangeSpec: saveRecording on series whose predictions come from a        *)
(* classifier API that may answer with probabilities outside [0, 1]; the   *)
(* page takes the answer as it is.                                         *)
(***************************************************************************)
RangeInputs == RangeFaces \X Outcomes(RangeResponses)

RangeInit ==
  /\ cameraActive = FALSE
  /\ cur = 1
  /\ mediaRecorder = "inactive"
  /\ stopPending = {1}
  /\ recordedChunks \in {0, MaxChunks}
  /\ hasFilePicker \in BOOLEAN
  /\ db = NoDb
  /\ save = [k \in Starts |-> NoSave]
  /\ apiAnalysis = <<>>
  /\ report = NoReport
  /\ \E n \in 0..MaxLen : \E inputs \in [1..n -> RangeInputs] :
       /\ analysisDataRef = SeriesOf(inputs)
       /\ inst = [k \in Starts |->
                    IF k = 1
                    THEN [NewInstance EXCEPT
                            !.faceLandmarker = "ready", !.probe = "done",
                            !.tfModel = "api", !.loopModel = "api",
                            !.frameCount = IF n = 0 THEN 0 ELSE SampleEvery * (n - 1) + 1,
                            !.sampled = {SampleEvery * (i - 1) : i \in 1..n}]
                    ELSE NewInstance]

RangeSpec == RangeInit /\ [][AggNext]_vars

(***************************************************************************)
(* FloatSpec: saveRecording in floating-point arithmetic on series whose   *)
(* stress scores are numbers of PrecisionBits significant bits.            *)
(***************************************************************************)
\* a face all of whose stress indicators score v: its stress score is v
FaceOfStress(v) ==
  [eyeBlinkLeft |-> v, eyeBlinkRight |-> v, browDownLeft |-> v, mouthFrownLeft |-> v]

FloatFaces == {FaceOfStress(Q(j, Pow2(PrecisionBits - 1))) : j \in 0..Pow2(PrecisionBits - 1)}

FloatInputs == FloatFaces \X {Undefined}

FloatInit ==
  /\ cameraActive = FALSE
  /\ cur = 1
  /\ mediaRecorder = "inactive"
  /\ stopPending = {1}
  /\ recordedChunks = MaxChunks
  /\ hasFilePicker \in BOOLEAN
  /\ db = NoDb
  /\ save = [k \in Starts |-> NoSave]
  /\ apiAnalysis = <<>>
  /\ report = NoReport
  /\ \E n \in 0..MaxLen : \E inputs \in [1..n -> FloatInputs] :
       /\ analysisDataRef = SeriesOf(inputs)
       /\ inst = [k \in Starts |->
                    IF k = 1
                    THEN [NewInstance EXCEPT
                            !.faceLandmarker = "ready", !.probe = "failed",
                            !.frameCount = IF n = 0 THEN 0 ELSE SampleEvery * (n - 1) + 1]
                    ELSE NewInstance]

FloatNext ==
  \/ \E k \in Starts, finalChunk \in BOOLEAN : OnStopRounded(k, finalChunk)
  \/ \E k \in Starts : PickerDone(k)
  \/ \E k \in Starts, ok \in BOOLEAN : UploadDone(k, ok)

FloatSpec == FloatInit /\ [][FloatNext]_vars

(***************************************************************************)
(* StressSpec: one frame of a running loop, on every face of StressFaces:  *)
(* each of the four stress indicators is missing from the landmark output  *)
(* or scores 0, 1/2 or 1.                                                  *)
(***************************************************************************)
StressCategories == {"eyeBlinkLeft", "eyeBlinkRight", "browDownLeft", "mouthFrownLeft"}
StressValues == {QInt(0), Q(1, 2), QInt(1)}

StressFaces ==
  {[c \in present \cup {"jawOpen"} |-> IF c = "jawOpen" THEN Q(1, 2) ELSE score[c]] :
     present \in SUBSET StressCategories, score \in [StressCategories -> StressValues]}

StressInit ==
  /\ cameraActive = TRUE
  /\ cur = 1
  /\ mediaRecorder = "recording"
  /\ stopPending = {}
  /\ recordedChunks = 0
  /\ analysisDataRef = <<>>
  /\ hasFilePicker \in BOOLEAN
  /\ db = NoDb
  /\ save = [k \in Starts |-> NoSave]
  /\ apiAnalysis = <<>>
  /\ report = NoReport
  /\ inst = [k \in Starts |->
               IF k = 1
               THEN [NewInstance EXCEPT !.mounted = TRUE, !.faceLandmarker = "ready",
                                        !.probe = "failed", !.raf = TRUE]
               ELSE NewInstance]

StressNext == \E face \in StressFaces : AnalyzeFrame(1, face, 1)

StressSpec == StressInit /\ [][StressNext]_vars

(***************************************************************************)
(* WorkerSpec: the save of a stopped recording, with its upload of the     *)
(* video summary, next to the questions and transcript analyses of the     *)
(* same session.                                                           *)
(***************************************************************************)
WorkerInputs == {<<FaceTense, ResponseSad>>, <<FaceCalm, Undefined>>}

WorkerInit ==
  /\ cameraActive = FALSE
  /\ cur = 1
  /\ mediaRecorder = "inactive"
  /\ stopPending = {1}
  /\ recordedChunks = MaxChunks
  /\ hasFilePicker \in BOOLEAN
  /\ db = NoDb
  /\ save = [k \in Starts |-> NoSave]
  /\ apiAnalysis = <<>>
  /\ report = NoReport
  /\ \E n \in 0..MaxLen : \E inputs \in [1..n -> WorkerInputs] :
       /\ analysisDataRef = SeriesOf(inputs)
       /\ inst = [k \in Starts |->
                    IF k = 1
                    THEN [NewInstance EXCEPT
                            !.faceLandmarker = "ready", !.probe = "done",
                            !.tfModel = "api", !.loopModel = "api",
                            !.frameCount = IF n = 0 THEN 0 ELSE SampleEvery * (n - 1) + 1,
                            !.sampled = {SampleEvery * (i - 1) : i \in 1..n}]
                    ELSE NewInstance]

WorkerNext ==
  \/ \E k \in Starts, finalChunk \in BOOLEAN : OnStop(k, finalChunk)
  \/ \E k \in Starts : PickerDone(k)
  \/ \E k \in Starts, ok \in BOOLEAN : UploadDone(k, ok)
  \/ PostQuestion
  \/ \E outcome \in {"ok", "llmFailed", "reportFailed"}, score \in LlmScores :
       PostAnalyze(outcome, score)

WorkerSpec == WorkerInit /\ [][WorkerNext]_vars

(***************************************************************************)
(* BucketSpec: the video routes of the worker over the bucket, with        *)
(* uploads for two sessions.                                               *)
(***************************************************************************)
\* the analysis texts uploaded: the summaries of two one-record series
BucketTexts == {JsonStringify(AnalysisResults(SeriesOf(<<x>>))) : x \in WorkerInputs}

BucketNext ==
  \E sessionId \in SessionIds, timestamp \in 1..MaxTime, analysisText \in BucketTexts,
     outcome \in {"stored", "rejected"} :
       PostVideo(sessionId, timestamp, analysisText, outcome)

BucketSpec == Init /\ [][BucketNext]_vars

(***************************************************************************)
(* PredictSpec: a running loop whose classifier calls are answered on the  *)
(* API path or on the TensorFlow.js path, or fail.                         *)
(***************************************************************************)
PredictInit ==
  /\ cameraActive = TRUE
  /\ cur = 1
  /\ mediaRecorder = "recording"
  /\ stopPending = {}
  /\ recordedChunks = 0
  /\ analysisDataRef = <<>>
  /\ hasFilePicker \in BOOLEAN
  /\ db = NoDb
  /\ save = [k \in Starts |-> NoSave]
  /\ apiAnalysis = <<>>
  /\ report = NoReport
  /\ inst = [k \in Starts |->
               IF k = 1
               THEN [NewInstance EXCEPT !.mounted = TRUE, !.faceLandmarker = "ready",
                                        !.probe = "done", !.tfModel = "api",
                                        !.loopModel = "api", !.raf = TRUE]
               ELSE NewInstance]

PredictNext ==
  \/ \E face \in SamplerFaces : AnalyzeFrame(1, face, SampleEvery + 1)
  \/ \E result \in ApiAnswers : PredictDone(1, PredictApi(result))
  \/ \E exprProbs \in ExpressionOutputs, authProbs \in AuthenticityOutputs :
       PredictDone(1, PredictLocal(exprProbs, authProbs))
  \/ PredictDone(1, Undefined)

PredictSpec == PredictInit /\ [][PredictNext]_vars

(***************************************************************************)
(* ReportSpec: the report view over the transcript side of the session.    *)
(***************************************************************************)
ReportOutcomes == {"ok", "llmFailed", "reportFailed", "networkError"}

ReportNext ==
  \/ PostQuestion
  \/ OpenReport
  \/ CloseReport
  \/ \E outcome \in ReportOutcomes, score \in LlmScores : GenerateReport(outcome, score)

ReportSpec == Init /\ [][ReportNext]_vars

(***************************************************************************)
(* SamplerSpec: one camera session whose loop runs NumFrames frames, every *)
(* frame showing a face and every classifier call answered.                *)
(***************************************************************************)
SamplerInit ==
  /\ cameraActive = TRUE
  /\ cur = 1
  /\ mediaRecorder = "recording"
  /\ stopPending = {}
  /\ recordedChunks = 0
  /\ analysisDataRef = <<>>
  /\ hasFilePicker \in BOOLEAN
  /\ db = NoDb
  /\ save = [k \in Starts |-> NoSave]
  /\ apiAnalysis = <<>>
  /\ report = NoReport
  /\ inst = [k \in Starts |->
               IF k = 1
               THEN [NewInstance EXCEPT !.mounted = TRUE, !.faceLandmarker = "loading",
                                        !.probe = "pending"]
               ELSE NewInstance]

SamplerNext ==
  \/ \E modelLoaded \in BOOLEAN : HealthDone(1, modelLoaded)
  \/ \E ready \in BOOLEAN, face \in SamplerFaces : LandmarkerReady(1, ready, face)
  \/ \E face \in SamplerFaces : AnalyzeFrame(1, face, NumFrames)
  \/ \E tfResults \in SamplerResponses : PredictDone(1, tfResults)

SamplerSpec == SamplerInit /\ [][SamplerNext]_vars

(***************************************************************************)
(* Properties of the aggregation (checked under AggSpec, where the series  *)
(* a save has read stays as it was until the save's finally block).        *)
(***************************************************************************)
RECURSIVE QSum(_, _)
QSum(f, S) ==
  IF S = {} THEN QInt(0)
  ELSE LET x == CHOOSE y \in S : TRUE IN QAdd(f[x], QSum(f, S \ {x}))

\* the saves that have produced a summary of the series as it still stands
Summarised == {k \in Starts : save[k].pc \in {"picker", "upload"}}

Carrying(data, axis) == {i \in 1..Len(data) : data[i][axis] # Undefined}

MeanProbability(data, axis, label) ==
  LET idx == Carrying(data, axis)
  IN  QDivInt(QSum([i \in idx |-> ProbOrZero(data[i][axis].probabilities, label)], idx),
              Cardinality(idx))

MeanStress(data) ==
  IF Len(data) = 0 THEN QInt(0)
  ELSE QDivInt(QSum([i \in 1..Len(data) |-> data[i].stressScore], 1..Len(data)), Len(data))

\* the integer nearest to x in 0..100 (a half rounds up)
Nearest(x) ==
  CHOOSE r \in 0..100 : QLt(QSub(x, Q(1, 2)), QInt(r)) /\ QLe(QInt(r), QAdd(x, Q(1, 2)))

ExpectedScore(data, aggregateExpression) ==
  LET A == IF Carrying(data, "authenticityPrediction") # {}
           THEN QMul(QInt(30), QSub(QInt(1),
                  MeanProbability(data, "authenticityPrediction", "Genuine")))
           ELSE QInt(0)
      E == IF aggregateExpression # Undefined
              /\ aggregateExpression.expression \in {"Angry", "Disgust", "Fear", "Sad"}
           THEN QMul(QInt(30), MeanProbability(data, "expressionPrediction",
                                               aggregateExpression.expression))
           ELSE QInt(0)
      raw == QSub(QSub(QSub(QInt(100), QMul(QInt(40), MeanStress(data))), A), E)
  IN  Nearest(QMax(QInt(0), QMin(QInt(100), raw)))

\* C1: for every drained series the reported credibilityScore equals
\* round(clamp(100 - 40*averageStress - A - E, 0, 100)), A = 30*(1 - mean Genuine
\* probability) when a record carries an authenticity prediction, E = 30*(mean
\* probability of the aggregate expression label) when that label is negative.
C1_ScoreFormula ==
  \A k \in Summarised :
    save[k].analysisResults.finalResult.credibilityScore
      = ExpectedScore(analysisDataRef, save[k].analysisResults.expression.average)

\* a summary whose score carries all three penalties
C1_Witness ==
  \E k \in Summarised :
    /\ Len(analysisDataRef) >= 2
    /\ save[k].analysisResults.authenticity.average # Undefined
    /\ save[k].analysisResults.expression.average # Undefined
    /\ save[k].analysisResults.expression.average.expression \in negativeExpressions
    /\ QLt(QInt(0), save[k].analysisResults.summary.averageStressScore)
    /\ save[k].analysisResults.finalResult.credibilityScore \in 1..99

\* C2: in every produced summary the status bucket agrees with the reported
\* integer credibilityScore: low exactly when score < 40, medium exactly when
\* 40 <= score < 70, high exactly when score >= 70.
C2_StatusMatchesScore ==
  \A k \in Starts :
    save[k].analysisResults # Undefined =>
      LET score == save[k].analysisResults.finalResult.credibilityScore
          status == save[k].analysisResults.finalResult.status
      IN  /\ (status = "low") <=> (score < 40)
          /\ (status = "medium") <=> (40 <= score /\ score < 70)
          /\ (status = "high") <=> (score >= 70)

\* the labels of keys whose mean is maximal
Maximal(avgProbs, keys) ==
  {i \in 1..Len(keys) : \A j \in 1..Len(keys) : QLe(avgProbs[keys[j]], avgProbs[keys[i]])}

FirstMaximal(avgProbs, keys) ==
  keys[CHOOSE i \in Maximal(avgProbs, keys) : \A j \in Maximal(avgProbs, keys) : i <= j]

LastMaximal(avgProbs, keys) ==
  keys[CHOOSE i \in Maximal(avgProbs, keys) : \A j \in Maximal(avgProbs, keys) : i >= j]

\* C3 as stated: among the labels sharing the maximal mean probability the
\* aggregate label is the earliest in enumeration order (a Fake/Genuine tie
\* gives Fake).
C3_FirstMaxWins ==
  \A k \in Starts :
    save[k].analysisResults # Undefined =>
      LET e == save[k].analysisResults.expression.average
          a == save[k].analysisResults.authenticity.average
      IN  /\ e # Undefined => e.expression = FirstMaximal(e.probabilities, expressionLabels)
          /\ a # Undefined => a.authenticity = FirstMaximal(a.probabilities, authenticityLabels)

\* C3 amended: among the labels sharing the maximal mean probability the
\* aggregate label is the latest in enumeration order (a Fake/Genuine tie gives
\* Genuine).
C3_LastMaxWins ==
  \A k \in Starts :
    save[k].analysisResults # Undefined =>
      LET e == save[k].analysisResults.expression.average
          a == save[k].analysisResults.authenticity.average
      IN  /\ e # Undefined => e.expression = LastMaximal(e.probabilities, expressionLabels)
          /\ a # Undefined => a.authenticity = LastMaximal(a.probabilities, authenticityLabels)

\* a summary with a tie on each axis
C3_Witness ==
  \E k \in Starts :
    /\ save[k].analysisResults # Undefined
    /\ save[k].analysisResults.expression.average # Undefined
    /\ Cardinality(Maximal(save[k].analysisResults.expression.average.probabilities,
                           expressionLabels)) >= 2
    /\ Cardinality(Maximal(save[k].analysisResults.authenticity.average.probabilities,
                           authenticityLabels)) = 2

\* C15: the reported credibilityScore of every summary is an integer between
\* 0 and 100 inclusive, whatever the records of the series hold.
C15_ScoreInRange ==
  \A k \in Starts :
    save[k].analysisResults # Undefined =>
      save[k].analysisResults.finalResult.credibilityScore \in 0..100

\* a summary whose penalties exceed 100 and whose score is 0
C15_Witness ==
  \E k \in Summarised :
    /\ save[k].analysisResults.finalResult.credibilityScore = 0
    /\ save[k].analysisResults.expression.average # Undefined
    /\ QLt(QInt(4), ProbOrZero(save[k].analysisResults.expression.average.probabilities,
                               "Sad"))

\* C16: the summary of an empty series has credibilityScore 100, status high,
\* average, maximal and minimal stress 0 and null expression and authenticity
\* aggregates and last picks.
C16_EmptySeries ==
  \A k \in Summarised :
    Len(analysisDataRef) = 0 =>
      /\ save[k].analysisResults.finalResult.credibilityScore = 100
      /\ save[k].analysisResults.finalResult.status = "high"
      /\ save[k].analysisResults.totalFrames = 0
      /\ save[k].analysisResults.summary.averageStressScore = QInt(0)
      /\ save[k].analysisResults.summary.maxStressScore = QInt(0)
      /\ save[k].analysisResults.summary.minStressScore = QInt(0)
      /\ save[k].analysisResults.expression.average = Undefined
      /\ save[k].analysisResults.expression.last = Undefined
      /\ save[k].analysisResults.authenticity.average = Undefined
      /\ save[k].analysisResults.authenticity.last = Undefined

\* a recording with video chunks and an empty series has been summarised
C16_Witness ==
  \E k \in Summarised :
    /\ Len(analysisDataRef) = 0
    /\ recordedChunks > 0
    /\ save[k].analysisResults # Undefined

NoPredictions(data) ==
  /\ Carrying(data, "expressionPrediction") = {}
  /\ Carrying(data, "authenticityPrediction") = {}

\* C17: for a series none of whose records carries a prediction the reported
\* credibilityScore is round(100 - 40*averageStress); it is 60 when every
\* record has stress score 1.
C17_StressOnlyScore ==
  \A k \in Summarised :
    NoPredictions(analysisDataRef) =>
      /\ save[k].analysisResults.finalResult.credibilityScore
           = Nearest(QSub(QInt(100), QMul(QInt(40), MeanStress(analysisDataRef))))
      /\ (/\ Len(analysisDataRef) > 0
          /\ \A i \in 1..Len(analysisDataRef) : analysisDataRef[i].stressScore = QInt(1))
           => save[k].analysisResults.finalResult.credibilityScore = 60

\* a summary of records that all have stress score 1 and no prediction
C17_Witness ==
  \E k \in Summarised :
    /\ Len(analysisDataRef) >= 2
    /\ NoPredictions(analysisDataRef)
    /\ \A i \in 1..Len(analysisDataRef) : analysisDataRef[i].stressScore = QInt(1)
    /\ save[k].analysisResults.finalResult.credibilityScore = 60

\* C18: in every summary minStress <= averageStress <= maxStress, all three
\* being 0 for the empty series.
C18_StressOrdered ==
  \A k \in Starts :
    save[k].analysisResults # Undefined =>
      LET m == save[k].analysisResults.summary
      IN  /\ QLe(m.minStressScore, m.averageStressScore)
          /\ QLe(m.averageStressScore, m.maxStressScore)
          /\ save[k].analysisResults.totalFrames = 0 =>
               /\ m.minStressScore = QInt(0)
               /\ m.averageStressScore = QInt(0)
               /\ m.maxStressScore = QInt(0)

(***************************************************************************)
(* Properties of stopping, saving and the loop (checked under Spec).       *)
(***************************************************************************)
\* recording k has been stopped and nothing of its stop is still under way
StopHandled(k) ==
  /\ k <= cur
  /\ k < cur \/ ~cameraActive
  /\ k \notin stopPending
  /\ save[k].pc \notin {"picker", "upload"}

\* C4: every stop that follows a start produces exactly one summary from the
\* series, also when the media recorder failed to start or delivered no chunks:
\* once the stop of a recording is handled, its summary exists.
C4_StopProducesSummary ==
  \A k \in Starts : StopHandled(k) => save[k].analysisResults # Undefined

\* C5: after the series of a stopped recording has been aggregated and cleared,
\* no record of that recording is appended to it.
C5_NoLateRecord ==
  \A k \in Starts :
    save[k].pc = "done" =>
      \A i \in 1..Len(analysisDataRef) : analysisDataRef[i].inst # k

\* C6: after the camera is stopped no frame callback of its analysis loop is
\* scheduled any more, also when the stop came while a classifier call was
\* pending.
C6_NoCallbackAfterStop ==
  \A k \in Starts : ~inst[k].mounted => ~inst[k].raf

\* C7: whenever a saveRecording call finishes, on whichever path, the series is
\* empty.
C7_SeriesEmptyAfterSave ==
  [][\A k \in Starts :
       (save[k].pc \notin {"nodata", "done"} /\ save'[k].pc \in {"nodata", "done"})
         => analysisDataRef' = <<>>]_vars

\* C8: while a recording runs, the length of the series never decreases, also
\* when the save of the previous recording is still awaiting its dialog or
\* upload.
C8_AppendOnlyWhileRecording ==
  [][(cameraActive /\ cameraActive' /\ cur' = cur)
       => Len(analysisDataRef') >= Len(analysisDataRef)]_vars

EntriesOf(data, k) == {i \in 1..Len(data) : data[i].inst = k}

C12_FailedCallKeepsLoop ==
  [][\A k \in Starts :
       PredictDone(k, Undefined) =>
         /\ inst'[k].raf
         /\ ~inst'[k].inflight
         /\ inst'[k].frameCount = inst[k].frameCount + 1
         /\ IF inst[k].pending # NoFace
            THEN /\ Len(analysisDataRef') = Len(analysisDataRef) + 1
                 /\ SubSeq(analysisDataRef', 1, Len(analysisDataRef)) = analysisDataRef
                 /\ LET e == analysisDataRef'[Len(analysisDataRef')]
                    IN  /\ e.inst = k
                        /\ e.frame = inst[k].frameCount
                        /\ e.expressionPrediction = Undefined
                        /\ e.authenticityPrediction = Undefined
                        /\ e.stressScore = StressScore(EyeData(inst[k].pending),
                                                       ExpressionData(inst[k].pending))
            ELSE analysisDataRef' = analysisDataRef]_vars

\* the record of a sampled frame whose classifier call failed is in the series
\* and its loop is scheduled for the next frame
C12_Witness ==
  \E k \in Starts : \E i \in 1..Len(analysisDataRef) :
    /\ analysisDataRef[i].inst = k
    /\ inst[k].loopModel = "api"
    /\ analysisDataRef[i].frame % SampleEvery = 0
    /\ analysisDataRef[i].expressionPrediction = Undefined
    /\ analysisDataRef[i].authenticityPrediction = Undefined
    /\ inst[k].frameCount = analysisDataRef[i].frame + 1
    /\ inst[k].raf

\* record a was captured before record b: a loop captures its frames in the
\* order of their frame counts, and frame 0 of a camera session is captured
\* before the next session is started
CapturedBefore(a, b) ==
  \/ a.inst = b.inst /\ a.frame < b.frame
  \/ a.inst < b.inst /\ a.frame = 0

\* C14: the records of the series are in capture order: no record stands
\* behind one that was captured after it.
C14_CaptureOrder ==
  \A i, j \in 1..Len(analysisDataRef) :
    i < j => ~CapturedBefore(analysisDataRef[j], analysisDataRef[i])

(***************************************************************************)
(* Properties of the worker (checked under WorkerSpec).                    *)
(***************************************************************************)
\* C20: no step changes both the transcript side (analyses, reports, what GET
\* /report answers) and the video side (the stored summaries, what GET
\* /video-analysis answers): a POST /analyze, successful or failed, leaves the
\* stored video summary as it was uploaded, an upload leaves every report as
\* it was, and each side stores only its own score.
C20_ScoresKeptApart ==
  [][/\ (db' # db) => (apiAnalysis' = apiAnalysis /\ GetVideoAnalysis(PageSession)' = GetVideoAnalysis(PageSession))
     /\ (apiAnalysis' # apiAnalysis) => (db' = db /\ GetReport' = GetReport)
     /\ \A i \in 1..Len(apiAnalysis') :
          \E k \in Starts : JsonParse(apiAnalysis'[i].text) = save[k].analysisResults
     /\ \A i \in 1..Len(db'.session_reports) :
          db'.session_reports[i].nlp_analysis.credibility_score \in LlmScores]_vars

\* a summary and a report are both stored, and a transcript analysis has
\* failed after them
C20_Witness ==
  /\ Len(apiAnalysis) > 0
  /\ Len(db.session_reports) > 0
  /\ Len(db.nlp_analysis) > Len(db.session_reports)
  /\ db.analyzeStatus = 500

(***************************************************************************)
(* Properties of the stress estimator (checked under StressSpec).          *)
(***************************************************************************)
\* the score of a category in the landmark output, 0 when it is missing
Indicator(face, category) == IF category \in DOMAIN face THEN face[category] ELSE QInt(0)

\* (3 * (left + right) / 2 + 4 * furrow + 3 * frown) / 10
ExpectedStress(face) ==
  QDivInt(QAdd(QAdd(QMul(QInt(3), QDivInt(QAdd(Indicator(face, "eyeBlinkLeft"),
                                               Indicator(face, "eyeBlinkRight")), 2)),
                    QMul(QInt(4), Indicator(face, "browDownLeft"))),
               QMul(QInt(3), Indicator(face, "mouthFrownLeft"))),
          10)

\* C19: the record of a frame has stress score 0.3*mean(leftEyeBlink,
\* rightEyeBlink) + 0.4*browFurrow + 0.3*mouthFrown, a category missing from the
\* landmark output counting 0, and the score lies in [0, 1].
C19_StressFormula ==
  [][\A face \in StressFaces :
       AnalyzeFrame(1, face, 1) =>
         /\ Len(analysisDataRef') = Len(analysisDataRef) + 1
         /\ LET e == analysisDataRef'[Len(analysisDataRef')]
            IN  /\ e.stressScore = ExpectedStress(face)
                /\ QLe(QInt(0), e.stressScore)
                /\ QLe(e.stressScore, QInt(1))]_vars

\* a record whose indicators differ, one of them being 0
C19_Witness ==
  \E i \in 1..Len(analysisDataRef) :
    /\ analysisDataRef[i].eyeData.leftEyeBlink = QInt(1)
    /\ analysisDataRef[i].eyeData.rightEyeBlink = QInt(0)
    /\ analysisDataRef[i].expressionData.browFurrow = Q(1, 2)
    /\ analysisDataRef[i].expressionData.mouthFrown = QInt(1)
    /\ analysisDataRef[i].stressScore = Q(13, 20)

(***************************************************************************)
(* Properties of the sampling cadence (checked under SamplerSpec).         *)
(***************************************************************************)
\* C11: once the health probe has connected the component (tfModel is set),
\* its loop calls the classifier on every sampled frame it processes, whether
\* the probe or the landmark model finished first.
C11_ConnectedLoopCallsClassifier ==
  [][\A k \in Starts :
       (/\ inst[k].tfModel = "api"
        /\ inst[k].raf
        /\ inst[k].frameCount % SampleEvery = 0
        /\ inst'[k] # inst[k]
        /\ inst'[k].mounted)
         => inst[k].frameCount \in inst'[k].sampled]_vars

\* C13: when the health probe failed or reported no model, the predict
\* endpoint is never called in that camera session, and every frame (each shows
\* a face) has its record in the series, with its stress score and without
\* predictions.
C13_NoProbeNoCalls ==
  \A k \in Starts :
    inst[k].probe = "failed" =>
      /\ inst[k].sampled = {}
      /\ ~inst[k].inflight
      /\ Len(analysisDataRef) = inst[k].frameCount
      /\ \A i \in 1..Len(analysisDataRef) :
           /\ analysisDataRef[i].frame = i - 1
           /\ analysisDataRef[i].expressionPrediction = Undefined
           /\ analysisDataRef[i].authenticityPrediction = Undefined
           /\ \E face \in SamplerFaces :
                analysisDataRef[i].stressScore
                  = StressScore(EyeData(face), ExpressionData(face))

\* the probe failed and the loop has run past a sampling point
C13_Witness ==
  \E k \in Starts :
    /\ inst[k].probe = "failed"
    /\ inst[k].frameCount > SampleEvery
    /\ Len(analysisDataRef) = inst[k].frameCount

PredictedFrames(data) ==
  {data[i].frame : i \in {j \in 1..Len(data) : data[j].expressionPrediction # Undefined}}

C21_FailureSurfaced ==
  report.status \in {400, 500} =>
     /\ report.alerted
     /\ "error" \notin DOMAIN report.analysis

(***************************************************************************)
(* Properties of the video routes (checked under BucketSpec).              *)
(***************************************************************************)
\* the objects of the bucket that were uploaded for the session, by position
UploadedFor(sessionId) ==
  {i \in DOMAIN apiAnalysis : apiAnalysis[i].customMetadata.sessionId = sessionId}

\* the summary uploaded last for the session
LastUploaded(sessionId) ==
  JsonParse(apiAnalysis[CHOOSE i \in UploadedFor(sessionId) :
                          \A j \in UploadedFor(sessionId) : j <= i].text)

\* C22: after any sequence of uploads, GET /video-analysis of a session answers
\* the summary uploaded last for that session, field for field.
C22_LatestSummaryRead ==
  \A sessionId \in SessionIds :
    UploadedFor(sessionId) # {} =>
      GetVideoAnalysis(sessionId) = [status |-> 200, body |-> LastUploaded(sessionId)]

\* C29: GET /video-analysis of a session answers 404 when nothing was uploaded
\* for that session, and otherwise a summary that was uploaded for that very
\* session, whatever was uploaded for other sessions (session 1 never reads
\* what was uploaded for session 10, nor the other way round).
C29_OwnSessionOnly ==
  \A sessionId \in SessionIds :
    LET answer == GetVideoAnalysis(sessionId)
    IN  /\ UploadedFor(sessionId) = {} => answer.status = 404
        /\ answer.status = 200 =>
             \E i \in UploadedFor(sessionId) : answer.body = JsonParse(apiAnalysis[i].text)

\* sessions 1 and 10 both hold a summary, that of session 10 uploaded later and
\* different, and session 1 reads its own
C29_Witness ==
  /\ Len(apiAnalysis) = 2
  /\ apiAnalysis[1].customMetadata.sessionId = <<"1">>
  /\ apiAnalysis[2].customMetadata.sessionId = <<"1", "0">>
  /\ apiAnalysis[1].uploaded < apiAnalysis[2].uploaded
  /\ apiAnalysis[1].text # apiAnalysis[2].text
  /\ GetVideoAnalysis(<<"1">>) = [status |-> 200, body |-> JsonParse(apiAnalysis[1].text)]

\* C30: every url GET /videos returns for a session is answered by GET
\* /video/:filename with the object, not with 404.
C30_ListedUrlsResolve ==
  \A sessionId \in SessionIds :
    \A i \in DOMAIN ListVideos(sessionId).videos :
      LET url == ListVideos(sessionId).videos[i].url
      IN  GetVideo(url.sessionId, url.filename).status = 200

(***************************************************************************)
(* Properties of the records of the series (checked under Spec).           *)
(***************************************************************************)
\* a number: a field that holds a value
IsNumber(x) == DOMAIN x = {"n", "d"} /\ x.d > 0

\* the record has its four eye fields, its four expression fields and its
\* stress score, each a number
Complete(entry) ==
  /\ {"eyeData", "expressionData", "stressScore"} \subseteq DOMAIN entry
  /\ DOMAIN entry.eyeData = {"leftEyeBlink", "rightEyeBlink", "eyeLookDown", "eyeLookUp"}
  /\ DOMAIN entry.expressionData = {"mouthSmile", "mouthFrown", "browFurrow", "jawOpen"}
  /\ \A f \in DOMAIN entry.eyeData : IsNumber(entry.eyeData[f])
  /\ \A f \in DOMAIN entry.expressionData : IsNumber(entry.expressionData[f])
  /\ IsNumber(entry.stressScore)

\* a step that processes a frame in which no face (or no blendshape list) was
\* detected: directly, or when the classifier call of such a frame settles
NoFaceFrame ==
  \E k \in Starts :
    \/ AnalyzeFrame(k, NoFace, MaxFrames)
    \/ \E ready \in BOOLEAN : LandmarkerReady(k, ready, NoFace)
    \/ inst[k].pending = NoFace /\ \E tfResults \in Outcomes(SpecResponses) :
                                      PredictDone(k, tfResults)

\* C23: every record of the series has all four eye fields, all four
\* expression fields and a stress score populated, and a frame without a face
\* appends no record.
C23_RecordsComplete ==
  /\ [](\A i \in 1..Len(analysisDataRef) : Complete(analysisDataRef[i]))
  /\ [][NoFaceFrame => analysisDataRef' = analysisDataRef]_vars

\* the first camera session has processed two frames, one with a face whose
\* blendshape list lacks the jawOpen category and one without a face, and holds one
\* record
C23_Witness ==
  /\ cur = 1
  /\ save[1].pc = "idle"
  /\ inst[1].frameCount = 2
  /\ Len(analysisDataRef) = 1
  /\ analysisDataRef[1].eyeData.leftEyeBlink = QInt(1)
  /\ analysisDataRef[1].expressionData.jawOpen = QInt(0)

\* C26: every record of the series carries both predictions or neither, so
\* the records the expression aggregate is taken over are the records the
\* authenticity aggregate is taken over.
C26_BothOrNeither ==
  /\ \A i \in 1..Len(analysisDataRef) :
       (analysisDataRef[i].expressionPrediction = Undefined)
         <=> (analysisDataRef[i].authenticityPrediction = Undefined)
  /\ FramesWithExpression(analysisDataRef) = FramesWithAuthenticity(analysisDataRef)

\* the series holds a record that carries both predictions and a record that
\* carries neither
C26_Witness ==
  /\ Len(analysisDataRef) = 2
  /\ analysisDataRef[1].expressionPrediction # Undefined
  /\ analysisDataRef[1].authenticityPrediction # Undefined
  /\ analysisDataRef[2].expressionPrediction = Undefined
  /\ analysisDataRef[2].authenticityPrediction = Undefined

\* C27: at most one classifier call of the page is in flight at any time,
\* across any sequence of camera starts and stops.
C27_OneCallInFlight ==
  Cardinality({k \in Starts : inst[k].inflight}) <= 1

(***************************************************************************)
(* Properties of the aggregates (checked under AggSpec).                   *)
(***************************************************************************)
\* C24: on each axis the aggregate of a summary holds, for every label of the
\* axis, the mean of that label's probability over exactly the records that
\* carry a prediction on the axis (a label a record does not list counts as
\* 0), and the mean of the aggregate label is at least that of every other
\* label.
C24_AggregateMeans ==
  \A k \in Summarised :
    LET e == save[k].analysisResults.expression.average
        a == save[k].analysisResults.authenticity.average
    IN  /\ e # Undefined =>
             /\ DOMAIN e.probabilities = LabelsOf(expressionLabels)
             /\ \A label \in LabelsOf(expressionLabels) :
                  /\ e.probabilities[label]
                       = MeanProbability(analysisDataRef, "expressionPrediction", label)
                  /\ QLe(e.probabilities[label], e.probabilities[e.expression])
        /\ a # Undefined =>
             /\ DOMAIN a.probabilities = LabelsOf(authenticityLabels)
             /\ \A label \in LabelsOf(authenticityLabels) :
                  /\ a.probabilities[label]
                       = MeanProbability(analysisDataRef, "authenticityPrediction", label)
                  /\ QLe(a.probabilities[label], a.probabilities[a.authenticity])

\* a summary of three records, two of them carrying predictions, only one of
\* which lists Happy: the mean of Happy is 3/4 over two records
C24_Witness ==
  \E k \in Summarised :
    /\ Len(analysisDataRef) = 3
    /\ Cardinality(Carrying(analysisDataRef, "expressionPrediction")) = 2
    /\ save[k].analysisResults.expression.average.probabilities["Happy"] = Q(3, 8)

\* the series with the predictions of every record removed
WithoutPredictions(data) ==
  [i \in 1..Len(data) |->
     [data[i] EXCEPT !.expressionPrediction = Undefined,
                     !.authenticityPrediction = Undefined]]

\* every probability of every prediction of the series lies in [0, 1]
ProbabilitiesInUnit(data) ==
  \A i \in 1..Len(data) :
    \A axis \in {"expressionPrediction", "authenticityPrediction"} :
      data[i][axis] # Undefined =>
        \A label \in DOMAIN data[i][axis].probabilities :
          /\ QLe(QInt(0), data[i][axis].probabilities[label])
          /\ QLe(data[i][axis].probabilities[label], QInt(1))

\* C28: predictions can only lower the score: when all probabilities lie in
\* [0, 1], the reported credibilityScore of a series is at most the score the
\* same series gets with its predictions removed.
C28_PredictionsOnlyLower ==
  \A k \in Summarised :
    ProbabilitiesInUnit(analysisDataRef) =>
      save[k].analysisResults.finalResult.credibilityScore
        <= AnalysisResults(WithoutPredictions(analysisDataRef)).finalResult.credibilityScore

\* a summary of records under stress whose predictions lower the score
C28_Witness ==
  \E k \in Summarised :
    /\ Len(analysisDataRef) >= 2
    /\ ~NoPredictions(analysisDataRef)
    /\ \E i \in 1..Len(analysisDataRef) : QLt(QInt(0), analysisDataRef[i].stressScore)
    /\ save[k].analysisResults.finalResult.credibilityScore
         < AnalysisResults(WithoutPredictions(analysisDataRef)).finalResult.credibilityScore

(***************************************************************************)
(* Properties of the predictions (checked under PredictSpec).              *)
(***************************************************************************)
\* no label of the mapping has a higher probability than this one
IsArgmax(label, probabilities) ==
  /\ label \in DOMAIN probabilities
  /\ \A other \in DOMAIN probabilities : QLe(probabilities[other], probabilities[label])

====
